---- MODULE Spec2Model ----
(***************************************************************************)
(* Batch GCD over a set of moduli (Bernstein product tree / remainders).   *)
(* The model follows main (src/unnamed/part_000) through part A            *)
(* (product_tree), part B (remainders_squares) and part C (the gcd loop    *)
(* and the count), with the on-disk tree as a map from level to files of   *)
(* raw bytes, and remainders_squares_fast as a second caller of the        *)
(* persisted tree.                                                         *)
(***************************************************************************)
EXTENDS Integers, Sequences, FiniteSets, TLC

\* ---------------------------------------------------------------- bounds
MaxK == 4          \* longest input sequence enumerated in full
MaxModulus == 3    \* enumerated moduli are 0..MaxModulus
MaxFaultK == 2     \* longest enumerated input in the storage-fault runs
MaxGarbage == 1    \* values 0..MaxGarbage stand for the contents of a clobbered mpz

VARIABLES
    N,              \* the moduli as loaded by read_moduli_from_file (history, never changes)
    X,              \* input_moduli, the global container handed to product_tree
    filesPerFloor,  \* the global level manifest
    disk,           \* data/product_tree: level -> sequence of files (raw bytes)
    written,        \* level -> number of files written by this run (history)
    pc,             \* position of main
    l,              \* product_tree: level counter
    current_level,  \* product_tree local
    new_level,      \* product_tree local
    levels,         \* main: value returned by product_tree
    R,              \* main: remainders vector
    Z,              \* remainders_squares local
    ri,             \* remainders_squares loop index
    gi,             \* main: gcd loop index
    c,              \* main: compromised counter
    fpc,            \* position of the remainders_squares_fast call
    RF,             \* vector handed to remainders_squares_fast
    fl,             \* remainders_squares_fast: level counter
    faults,         \* number of storage faults that happened (environment)
    badRead         \* a read met a missing or truncated file (history)

vars == <<N, X, filesPerFloor, disk, written, pc, l, current_level, new_level,
          levels, R, Z, ri, gi, c, fpc, RF, fl, faults, badRead>>

\* ------------------------------------------------------------ arithmetic
Abs(x) == IF x < 0 THEN -x ELSE x

RECURSIVE Gcd(_, _)
Gcd(a, b) == IF b = 0 THEN Abs(a) ELSE Gcd(b, a % b)

Last(s) == s[Len(s)]

\* ------------------------------------------------------ raw serialization
\* mpz_out_raw: 4 bytes of size (two's complement, negative for a negative
\* number), then the magnitude, most significant byte first, no leading zero.
RECURSIVE ToBytes(_)
ToBytes(x) == IF x = 0 THEN <<>> ELSE Append(ToBytes(x \div 256), x % 256)

RECURSIVE FromBytes(_)
FromBytes(b) ==
    IF b = <<>> THEN 0
    ELSE FromBytes(SubSeq(b, 1, Len(b) - 1)) * 256 + b[Len(b)]

U32Bytes(u) == << (u \div 16777216) % 256, (u \div 65536) % 256,
                  (u \div 256) % 256, u % 256 >>

SizeBytes(csize) ==
    IF csize >= 0 THEN U32Bytes(csize)
    ELSE [j \in 1..4 |-> 255 - U32Bytes(-csize - 1)[j]]

DecodeSize(b) ==
    IF b[1] < 128 THEN FromBytes(b)
    ELSE -(FromBytes([j \in 1..4 |-> 255 - b[j]]) + 1)

OutRaw(x) ==
    LET mag == ToBytes(Abs(x))
        csize == IF x < 0 THEN -Len(mag) ELSE Len(mag)
    IN  SizeBytes(csize) \o mag

\* A path with no file behind it.
Missing == << -1 >>

Garbage == 0..MaxGarbage

\* Outcomes of  fopen(name, "r"); mpz_inp_raw(y, file); fclose(file)  where y
\* holds old before the call.  No return value is looked at.
\*  - no file: fopen gives NULL, mpz_inp_raw then reads stdin, fclose(NULL)
\*    is undefined: the process dies, or goes on with whatever y holds;
\*  - fewer than 4 bytes: mpz_inp_raw returns 0 and leaves y alone;
\*  - payload shorter than the size field: mpz_inp_raw returns 0 after
\*    reading into y's limbs, the size of y is not updated;
\*  - otherwise y is the number written.
InpRaw(file, old) ==
    IF file = Missing
    THEN {[val |-> old, crash |-> TRUE, bad |-> TRUE]}
         \cup {[val |-> v, crash |-> FALSE, bad |-> TRUE] : v \in {old} \cup Garbage}
    ELSE IF Len(file) < 4
    THEN {[val |-> old, crash |-> FALSE, bad |-> TRUE]}
    ELSE LET csize == DecodeSize(SubSeq(file, 1, 4))
             n == Abs(csize)
         IN  IF Len(file) - 4 < n
             THEN {[val |-> v, crash |-> FALSE, bad |-> TRUE] :
                       v \in IF old = 0 THEN {0} ELSE {old} \cup Garbage}
             ELSE LET mag == FromBytes(SubSeq(file, 5, 4 + n))
                  IN  {[val |-> IF csize < 0 THEN -mag ELSE mag,
                        crash |-> FALSE, bad |-> FALSE]}

\* ------------------------------------------------------------ level store
\* level directories; an input of n moduli uses at most n of them, the longest
\* sample four
Levels == 0..MaxK

FileAt(d, lv, i) == IF i + 1 <= Len(d[lv]) THEN d[lv][i + 1] ELSE Missing

\* variant: a file that is already there is not written again
WriteLevel_keep(d, lv, Xs) ==
    [d EXCEPT ![lv] =
        [j \in 1..(IF Len(Xs) > Len(d[lv]) THEN Len(Xs) ELSE Len(d[lv])) |->
            IF j <= Len(d[lv]) THEN d[lv][j] ELSE OutRaw(Xs[j])]]

\* write_level_to_file: file i of the level is opened with "w+" and written,
\* whatever was there before; files past the end of Xs are left as they are.
WriteLevel(d, lv, Xs) ==
    [d EXCEPT ![lv] =
        [j \in 1..(IF Len(Xs) > Len(d[lv]) THEN Len(Xs) ELSE Len(d[lv])) |->
            IF j <= Len(Xs) THEN OutRaw(Xs[j]) ELSE d[lv][j]]]

\* read_variable_from_file: y is freshly initialised (0) before the read.
ReadVariable(d, lv, index) == InpRaw(FileAt(d, lv, index), 0)

\* read_level_from_file: files 0..count-1 in order through the one mpz mod,
\* which keeps its value from one file to the next.
RECURSIVE ReadLevelFrom(_, _, _, _, _)
ReadLevelFrom(d, lv, i, count, mod) ==
    IF i >= count
    THEN {[vals |-> <<>>, crash |-> FALSE, bad |-> FALSE]}
    ELSE UNION {
           IF o.crash
           THEN {[vals |-> <<>>, crash |-> TRUE, bad |-> TRUE]}
           ELSE {[vals |-> <<o.val>> \o r.vals, crash |-> r.crash,
                  bad |-> (o.bad \/ r.bad)] :
                     r \in ReadLevelFrom(d, lv, i + 1, count, o.val)}
           : o \in InpRaw(FileAt(d, lv, i), mod)}

ReadLevel(d, fpf, lv) == ReadLevelFrom(d, lv, 0, fpf[lv + 1], 0)

\* ----------------------------------------------------------- product tree
\* The multiplication loop: i = 0, 2, ... while i < size-1.
PairProducts(cur) ==
    [j \in 1..(Len(cur) \div 2) |-> cur[2 * j - 1] * cur[2 * j]]

\* variant: the unpaired last element is left out
AppendOrphan_dropped(cur, nl) == nl

\* variant: the unpaired last element is paired with itself
AppendOrphan_selfpair(cur, nl) ==
    IF Len(cur) % 2 # 0 THEN Append(nl, Last(cur) * Last(cur)) ELSE nl

\* "Append orphan node"
AppendOrphan(cur, nl) ==
    IF Len(cur) % 2 # 0 THEN Append(nl, Last(cur)) ELSE nl

\* ------------------------------------------------------------- remainders
\* variant: the modulus is not squared
RemSquare_nosq(z, x) == z % x

\* (*R)[i] *= (*R)[i]; (*R)[i] = Z % (*R)[i];   (the caller rules out 0)
RemSquare(z, x) == z % (x * x)

\* parent of element i of a level, in the level above
ParentIndex(i) == i \div 2

\* ------------------------------------------------------------------- Init
Moduli == 0..MaxModulus

SeqsUpTo(S, n) == UNION {[1..k -> S] : k \in 1..n}

\* the scenarios of the specification, two-byte moduli, and longer inputs with
\* odd levels above level 0
Samples == { <<15, 77>>, <<15, 21>>, <<6, 10, 15>>, <<7>>, <<323, 391>>,
             <<6, 10, 15, 21, 35>>, <<2, 3, 5, 7, 11, 13>>,
             <<2, 3, 2, 3, 2, 3, 2>> }

EmptyDisk == [lv \in Levels |-> <<>>]

\* what an earlier, larger run left under data/product_tree
StaleDisk == [lv \in Levels |->
                 IF lv <= 1 THEN [j \in 1..(MaxK + 1) |-> OutRaw(9 + lv + j)]
                 ELSE <<>>]

InitWith(inputs) ==
    /\ N \in inputs
    /\ X = N
    /\ filesPerFloor = <<>>
    /\ disk \in {EmptyDisk, StaleDisk}
    /\ written = [lv \in Levels |-> 0]
    /\ pc = "pt_begin"
    /\ l = 0
    /\ current_level = <<>>
    /\ new_level = <<>>
    /\ levels = 0
    /\ R = <<>>
    /\ Z = 0
    /\ ri = 0
    /\ gi = 0
    /\ c = 0
    /\ fpc = "idle"
    /\ RF = <<>>
    /\ fl = 0
    /\ faults = 0
    /\ badRead = FALSE

Init == InitWith(SeqsUpTo(Moduli, MaxK) \cup Samples)

\* --------------------------------------------------- part A: product_tree
PT_Begin ==
    /\ pc = "pt_begin"
    /\ current_level' = X
    /\ new_level' = <<>>
    /\ l' = 0
    /\ pc' = "pt_loop"
    /\ UNCHANGED <<N, X, filesPerFloor, disk, written, levels, R, Z, ri, gi, c,
                   fpc, RF, fl, faults, badRead>>

PT_Persist ==
    /\ pc = "pt_loop"
    /\ Len(current_level) > 1
    /\ filesPerFloor' = Append(filesPerFloor, Len(current_level))
    /\ disk' = WriteLevel(disk, l, current_level)
    /\ written' = [written EXCEPT ![l] = Len(current_level)]
    /\ pc' = "pt_mul"
    /\ UNCHANGED <<N, X, l, current_level, new_level, levels, R, Z, ri, gi, c,
                   fpc, RF, fl, faults, badRead>>

PT_Multiply ==
    /\ pc = "pt_mul"
    /\ new_level' = PairProducts(current_level)
    /\ pc' = "pt_orphan"
    /\ UNCHANGED <<N, X, filesPerFloor, disk, written, l, current_level, levels,
                   R, Z, ri, gi, c, fpc, RF, fl, faults, badRead>>

PT_Orphan ==
    /\ pc = "pt_orphan"
    /\ new_level' = AppendOrphan(current_level, new_level)
    /\ pc' = "pt_assign"
    /\ UNCHANGED <<N, X, filesPerFloor, disk, written, l, current_level, levels,
                   R, Z, ri, gi, c, fpc, RF, fl, faults, badRead>>

PT_Assign ==
    /\ pc = "pt_assign"
    /\ current_level' = new_level
    /\ pc' = "pt_free"
    /\ UNCHANGED <<N, X, filesPerFloor, disk, written, l, new_level, levels,
                   R, Z, ri, gi, c, fpc, RF, fl, faults, badRead>>

\* variant: the leaves are never released
PT_Free_never ==
    /\ pc = "pt_free"
    /\ l' = l + 1
    /\ pc' = "pt_loop"
    /\ UNCHANGED <<N, X, filesPerFloor, disk, written, current_level, new_level,
                   levels, R, Z, ri, gi, c, fpc, RF, fl, faults, badRead>>

PT_Free ==
    /\ pc = "pt_free"
    /\ X' = IF l = 0 THEN <<>> ELSE X
    /\ l' = l + 1
    /\ pc' = "pt_loop"
    /\ UNCHANGED <<N, filesPerFloor, disk, written, current_level, new_level,
                   levels, R, Z, ri, gi, c, fpc, RF, fl, faults, badRead>>

\* variant: the size of the last floor is not recorded
PT_Last_nopush ==
    /\ pc = "pt_loop"
    /\ ~(Len(current_level) > 1)
    /\ disk' = WriteLevel(disk, l, current_level)
    /\ written' = [written EXCEPT ![l] = Len(current_level)]
    /\ current_level' = <<>>
    /\ new_level' = <<>>
    /\ levels' = l + 1
    /\ pc' = "rs_read_level"
    /\ UNCHANGED <<N, X, filesPerFloor, l, R, Z, ri, gi, c, fpc, RF, fl, faults,
                   badRead>>

PT_Last ==
    /\ pc = "pt_loop"
    /\ ~(Len(current_level) > 1)
    /\ filesPerFloor' = Append(filesPerFloor, Len(current_level))
    /\ disk' = WriteLevel(disk, l, current_level)
    /\ written' = [written EXCEPT ![l] = Len(current_level)]
    /\ current_level' = <<>>
    /\ new_level' = <<>>
    /\ levels' = l + 1
    /\ pc' = "rs_read_level"
    /\ UNCHANGED <<N, X, l, R, Z, ri, gi, c, fpc, RF, fl, faults, badRead>>

\* ---------------------------------------------- part B: remainders_squares
RS_ReadLevel ==
    /\ pc = "rs_read_level"
    /\ \E o \in ReadLevel(disk, filesPerFloor, 0) :
          /\ R' = o.vals
          /\ badRead' = (badRead \/ o.bad)
          /\ pc' = IF o.crash THEN "crashed" ELSE "rs_read_z"
    /\ UNCHANGED <<N, X, filesPerFloor, disk, written, l, current_level,
                   new_level, levels, Z, ri, gi, c, fpc, RF, fl, faults>>

RS_ReadZ ==
    /\ pc = "rs_read_z"
    /\ \E o \in ReadVariable(disk, levels - 1, 0) :
          /\ Z' = o.val
          /\ badRead' = (badRead \/ o.bad)
          /\ pc' = IF o.crash THEN "crashed" ELSE "rs_loop"
    /\ ri' = 0
    /\ UNCHANGED <<N, X, filesPerFloor, disk, written, l, current_level,
                   new_level, levels, R, gi, c, fpc, RF, fl, faults>>

\* one iteration of the loop; Z % 0 is GMP's division by zero (SIGFPE)
RS_Step ==
    /\ pc = "rs_loop"
    /\ ri < Len(R)
    /\ IF R[ri + 1] = 0
       THEN /\ pc' = "crashed"
            /\ UNCHANGED <<R, ri>>
       ELSE /\ R' = [R EXCEPT ![ri + 1] = RemSquare(Z, R[ri + 1])]
            /\ ri' = ri + 1
            /\ pc' = pc
    /\ UNCHANGED <<N, X, filesPerFloor, disk, written, l, current_level,
                   new_level, levels, Z, gi, c, fpc, RF, fl, faults, badRead>>

RS_Return ==
    /\ pc = "rs_loop"
    /\ ~(ri < Len(R))
    /\ gi' = 0
    /\ pc' = "gcd_loop"
    /\ UNCHANGED <<N, X, filesPerFloor, disk, written, l, current_level,
                   new_level, levels, R, Z, ri, c, fpc, RF, fl, faults, badRead>>

\* ------------------------------------------------- part C: the gcd stage
GCD_Step ==
    /\ pc = "gcd_loop"
    /\ gi < Len(X)
    /\ IF gi + 1 > Len(R) \/ X[gi + 1] = 0
       THEN /\ pc' = "crashed"
            /\ UNCHANGED <<R, gi>>
       ELSE /\ R' = [R EXCEPT ![gi + 1] = Gcd(R[gi + 1] \div X[gi + 1], X[gi + 1])]
            /\ gi' = gi + 1
            /\ pc' = pc
    /\ UNCHANGED <<N, X, filesPerFloor, disk, written, l, current_level,
                   new_level, levels, Z, ri, c, fpc, RF, fl, faults, badRead>>

GCD_End ==
    /\ pc = "gcd_loop"
    /\ ~(gi < Len(X))
    /\ pc' = "count"
    /\ UNCHANGED <<N, X, filesPerFloor, disk, written, l, current_level,
                   new_level, levels, R, Z, ri, gi, c, fpc, RF, fl, faults, badRead>>

Count ==
    /\ pc = "count"
    /\ c' = Cardinality({j \in 1..Len(R) : R[j] # 1})
    /\ pc' = "done"
    /\ UNCHANGED <<N, X, filesPerFloor, disk, written, l, current_level,
                   new_level, levels, R, Z, ri, gi, fpc, RF, fl, faults, badRead>>

\* -------------------------------------------------- remainders_squares_fast
TreeBuilt == pc \notin {"pt_begin", "pt_loop", "pt_mul", "pt_orphan",
                        "pt_assign", "pt_free"}

\* lines 107-113: read the top level, sanity check
RSF_ReadRoot ==
    /\ fpc = "idle"
    /\ TreeBuilt
    /\ \E o \in ReadLevel(disk, filesPerFloor, levels - 1) :
          /\ RF' = o.vals
          /\ fpc' = IF o.crash THEN "crashed"
                    ELSE IF Len(o.vals) # 1 THEN "thrown"
                    ELSE "loop"
    /\ fl' = levels - 2
    /\ UNCHANGED <<N, X, filesPerFloor, disk, written, pc, l, current_level,
                   new_level, levels, R, Z, ri, gi, c, faults, badRead>>

\* newR of one level: element i from RF[i/2] and file i of level lv
RECURSIVE DescendFrom(_, _, _, _, _)
DescendFrom(d, lv, i, lengthY, Rp) ==
    IF i >= lengthY
    THEN {[vals |-> <<>>, crash |-> FALSE]}
    ELSE UNION {
           IF o.crash \/ o.val = 0
           THEN {[vals |-> <<>>, crash |-> TRUE]}
           ELSE {[vals |-> <<RemSquare(Rp[ParentIndex(i) + 1], o.val)>> \o r.vals,
                  crash |-> r.crash] :
                     r \in DescendFrom(d, lv, i + 1, lengthY, Rp)}
           : o \in ReadVariable(d, lv, i)}

\* one iteration of the descent (lines 114-126)
RSF_Level ==
    /\ fpc = "loop"
    /\ fl >= 0
    /\ \E o \in DescendFrom(disk, fl, 0, filesPerFloor[fl + 1], RF) :
          IF o.crash
          THEN /\ fpc' = "crashed"
               /\ UNCHANGED <<RF, fl>>
          ELSE /\ RF' = o.vals
               /\ fl' = fl - 1
               /\ fpc' = fpc
    /\ UNCHANGED <<N, X, filesPerFloor, disk, written, pc, l, current_level,
                   new_level, levels, R, Z, ri, gi, c, faults, badRead>>

RSF_Return ==
    /\ fpc = "loop"
    /\ ~(fl >= 0)
    /\ fpc' = "done"
    /\ UNCHANGED <<N, X, filesPerFloor, disk, written, pc, l, current_level,
                   new_level, levels, R, Z, ri, gi, c, RF, fl, faults, badRead>>

\* ------------------------------------------------------------ environment
\* A level file is lost or cut short between the upward pass and the reads.
StorageFault ==
    /\ pc = "rs_read_level"
    /\ faults = 0
    /\ \E lv \in {0, levels - 1} : \E i \in 0..(filesPerFloor[lv + 1] - 1) :
          \E f \in {Missing} \cup
                   {SubSeq(disk[lv][i + 1], 1, m) : m \in 0..(Len(disk[lv][i + 1]) - 1)} :
              disk' = [disk EXCEPT ![lv][i + 1] = f]
    /\ faults' = 1
    /\ UNCHANGED <<N, X, filesPerFloor, written, pc, l, current_level, new_level,
                   levels, R, Z, ri, gi, c, fpc, RF, fl, badRead>>

\* --------------------------------------------------------- specifications
Main ==
    \/ PT_Begin
    \/ PT_Persist
    \/ PT_Multiply
    \/ PT_Orphan
    \/ PT_Assign
    \/ PT_Free
    \/ PT_Last
    \/ RS_ReadLevel
    \/ RS_ReadZ
    \/ RS_Step
    \/ RS_Return
    \/ GCD_Step
    \/ GCD_End
    \/ Count

Next ==
    \/ Main
    \/ RSF_ReadRoot
    \/ RSF_Level
    \/ RSF_Return

Spec == Init /\ [][Next]_vars

InitFault == InitWith(SeqsUpTo(Moduli, MaxFaultK) \cup Samples)

NextFault ==
    \/ Main
    \/ StorageFault

SpecFault == InitFault /\ [][NextFault]_vars

\* ------------------------------------------------------------- properties
k == Len(N)

RECURSIVE SeqProduct(_)
SeqProduct(s) == IF s = <<>> THEN 1 ELSE s[1] * SeqProduct(Tail(s))

Z0 == SeqProduct(N)

\* product of all N[j] with j # i
RECURSIVE ProductExcept(_, _)
ProductExcept(s, i) ==
    IF s = <<>> THEN 1
    ELSE (IF i = 1 THEN 1 ELSE s[1]) * ProductExcept(Tail(s), i - 1)

SharesFactor(i) == Gcd(N[i], ProductExcept(N, i)) > 1

\* every way read_level_from_file can answer for level lv gives vals
LevelReadsAs(lv, vals) ==
    \A o \in ReadLevel(disk, filesPerFloor, lv) :
        ~o.bad /\ ~o.crash /\ o.vals = vals

\* R is what remainders_squares handed back and the gcd loop has not touched
AfterPartB == pc = "gcd_loop" /\ gi = 0

\* C1: after parts A, B and C, every R[i] divides N[i], R[i] > 1 exactly when
\* N[i] shares a factor with the product of the other moduli, and the printed
\* count is the number of such moduli.
C1_GcdResult ==
    pc = "done" =>
        /\ Len(R) = k
        /\ \A i \in 1..k :
              /\ R[i] # 0
              /\ N[i] % R[i] = 0
              /\ (R[i] > 1) <=> SharesFactor(i)
        /\ c = Cardinality({i \in 1..k : SharesFactor(i)})

\* C2: after product_tree and remainders_squares, R has k entries and
\* R[i] = (product of all N[j]) mod N[i]^2, in input order.
C2_RemaindersSquares ==
    AfterPartB =>
        /\ Len(R) = k
        /\ \A i \in 1..k : R[i] = Z0 % (N[i] * N[i])

C2_Witness ==
    /\ AfterPartB
    /\ N = <<6, 10, 15>>
    /\ R = <<0, 0, 0>>
    /\ Len(disk[0]) > k

\* C3: on a completed product tree remainders_squares and
\* remainders_squares_fast produce the same vector.
C3_VariantsAgree ==
    (AfterPartB /\ fpc = "done") => RF = R

\* C4: after product_tree returns L, level L-1 as persisted holds exactly one
\* element, the product of all N[i].
C4_RootIsProduct ==
    TreeBuilt =>
        /\ levels >= 1
        /\ Len(filesPerFloor) = levels
        /\ filesPerFloor[levels] = 1
        /\ written[levels - 1] = 1
        /\ LevelReadsAs(levels - 1, <<Z0>>)

C4_Witness ==
    /\ TreeBuilt
    /\ N = <<6, 10, 15, 21, 35>>
    /\ levels = 4
    /\ LevelReadsAs(3, <<661500>>)

\* C5: every element (lv, i) of a persisted level lv >= 1 is the product of
\* elements 2i and 2i+1 of level lv-1, or element 2i unchanged when 2i+1 is
\* past the end; an unpaired last element is promoted to the last position.
C5_LevelRelation ==
    TreeBuilt =>
        \A lv \in 1..(levels - 1) :
            \A prev \in ReadLevel(disk, filesPerFloor, lv - 1) :
                \A cur \in ReadLevel(disk, filesPerFloor, lv) :
                    /\ Len(cur.vals) = written[lv]
                    /\ \A i \in 0..(Len(cur.vals) - 1) :
                          cur.vals[i + 1] =
                              IF 2 * i + 1 < Len(prev.vals)
                              THEN prev.vals[2 * i + 1] * prev.vals[2 * i + 2]
                              ELSE prev.vals[2 * i + 1]
                    /\ Len(prev.vals) % 2 = 1 => Last(cur.vals) = Last(prev.vals)

C5_Witness ==
    /\ TreeBuilt
    /\ N = <<6, 10, 15, 21, 35>>
    /\ LevelReadsAs(1, <<60, 315, 35>>)
    /\ LevelReadsAs(2, <<18900, 35>>)

\* ceil(log2 n) + 1 for n >= 1
RECURSIVE LevelsFor(_)
LevelsFor(n) == IF n <= 1 THEN 1 ELSE 1 + LevelsFor((n + 1) \div 2)

\* C6: after product_tree, filesPerFloor[0] = k, filesPerFloor[L-1] = 1,
\* each entry is the ceiling of half the one before, L = ceil(log2 k) + 1, and
\* each entry is the number of files written for its level.
C6_Manifest ==
    TreeBuilt =>
        /\ Len(filesPerFloor) = levels
        /\ levels = LevelsFor(k)
        /\ filesPerFloor[1] = k
        /\ filesPerFloor[levels] = 1
        /\ \A lv \in 1..(levels - 1) :
              filesPerFloor[lv + 1] = (filesPerFloor[lv] + 1) \div 2
        /\ \A lv \in 0..(levels - 1) : filesPerFloor[lv + 1] = written[lv]

C6_Witness ==
    /\ TreeBuilt
    /\ k = 7
    /\ filesPerFloor = <<7, 4, 2, 1>>
    /\ \A lv \in 0..3 : written[lv] = filesPerFloor[lv + 1]

\* C7: after product_tree on k >= 2 moduli, read_level_from_file(0) gives the
\* k inputs in order, also when level 0 files of an earlier run were there.
C7_LevelZeroRoundTrip ==
    (TreeBuilt /\ k >= 2) => LevelReadsAs(0, N)

C7_Witness ==
    /\ TreeBuilt
    /\ N = <<323, 391>>
    /\ Len(disk[0]) > k
    /\ disk[0][1] = <<0, 0, 0, 2, 1, 67>>

Released == X # <<>> /\ X' = <<>>

Level0Persisted == written[0] = k /\ LevelReadsAs(0, N)

NoMultiplicationYet == l = 0 /\ pc \in {"pt_begin", "pt_loop", "pt_mul"}

\* C8 as stated: the leaves are released after level 0 is persisted and
\* before the first multiplication.
C8_ReleaseBeforeMultiply ==
    [][Released => (Level0Persisted /\ NoMultiplicationYet)]_vars

\* C8 as amended: the leaves are released after level 0 is persisted and
\* after the level 0 pairs have been multiplied into level 1, before level 1
\* is persisted and before any multiplication above level 0; for k >= 2 they
\* are released by the time product_tree returns.
C8_ReleaseAfterLevelZero ==
    /\ [][Released =>
            /\ Level0Persisted
            /\ l = 0
            /\ written[1] = 0
            /\ current_level = AppendOrphan(N, PairProducts(N))]_vars
    /\ []((TreeBuilt /\ k >= 2) => X = <<>>)

C8_Witness ==
    /\ pc = "pt_loop"
    /\ l = 1
    /\ k = 3
    /\ X = <<>>
    /\ written[0] = 3
    /\ written[1] = 0

\* C9: a read of a missing or truncated level file aborts the run; main never
\* goes on with a value as if the read had succeeded.
C9_BadReadAborts ==
    badRead => pc = "crashed"

\* C10: when the gcd stage runs, the moduli it iterates over are the k
\* original moduli in order, and the loop body runs once per entry of R.
C10_GcdCoversAll ==
    /\ pc = "gcd_loop" => X = N
    /\ pc \in {"count", "done"} => (gi = Len(R) /\ gi = k)

====
